---- MODULE Spec2Model ----
(***************************************************************************)
(* Model of hex::lang::Validator (plugins/libimhex/source/lang/            *)
(* validator.cpp): the recursive scope check Validator::validate run over  *)
(* bounded ASTs, with the instance's stored diagnostic m_error as state.   *)
(***************************************************************************)
EXTENDS Integers, Sequences, FiniteSets, TLC

\* ------------------------------------------------------------------ bounds
MaxLen == 3        \* longest top-level node list
MaxLine == 2       \* largest source line number of a declaration
MaxMembers == 2    \* longest struct/union member list
MaxEntries == 2    \* longest enum/bitfield entry list
MaxCalls == 2      \* calls of validate made on one Validator instance

Names == {"x", "y"}   \* identifiers
Lines == 1..MaxLine

\* ------------------------------------------------------------- AST nodes
\* One record shape for every ASTNode variant: kids are the child node
\* references in accessor order (getType, getSizeType/getSize; getMembers;
\* operands), entries the (name, value node) pairs of an enum or bitfield,
\* the value node kept as its line number (the only thing validate reads of
\* it; every entry is taken to have a value node).
Node(kind, name, line, kids, entries) ==
    [kind |-> kind, name |-> name, line |-> line, kids |-> kids, entries |-> entries]

Null == Node("Null", "", 0, <<>>, <<>>)
BuiltinType == Node("BuiltinType", "", 1, <<>>, <<>>)
IntegerLiteral == Node("IntegerLiteral", "", 1, <<>>, <<>>)
RValue == Node("RValue", "", 1, <<>>, <<>>)
NumericExpression(l, r) == Node("NumericExpression", "", 1, <<l, r>>, <<>>)
VariableDecl(name, line, type) == Node("VariableDecl", name, line, <<type>>, <<>>)
TypeDecl(name, line, type) == Node("TypeDecl", name, line, <<type>>, <<>>)
PointerVariableDecl(name, line, type, sizeType) ==
    Node("PointerVariableDecl", name, line, <<type, sizeType>>, <<>>)
ArrayVariableDecl(name, line, type, size) ==
    Node("ArrayVariableDecl", name, line, <<type, size>>, <<>>)
Struct(members) == Node("Struct", "", 1, members, <<>>)
Union(members) == Node("Union", "", 1, members, <<>>)
Enum(entries) == Node("Enum", "", 1, <<>>, entries)
Bitfield(entries) == Node("Bitfield", "", 1, <<>>, entries)
Entry(name, line) == [name |-> name, line |-> line]

\* ----------------------------------------------------------- diagnostics
ValidatorError(msg, name, line) == [msg |-> msg, name |-> name, line |-> line]
NoError == ValidatorError("", "", 0)
NullError == ValidatorError("nullptr in AST. This is a bug!", "", 1)
RedefinitionLineOne(node) == ValidatorError("redefinition of identifier", node.name, 1)
RedefinitionError(node) == ValidatorError("redefinition of identifier", node.name, node.line)
EnumRedefinitionError(entry) ==
    ValidatorError("redefinition of enum constant", entry.name, entry.line)

\* ------------------------------------------------------------- the walk
\* st is the instance state threaded through one top-level call: the stored
\* diagnostic, and (for observation) how often it was written and the
\* sequence of nodes examined and errors thrown.
Event(ev, err) == [ev |-> ev, err |-> err]
Enter(error) == [m_error |-> error, writes |-> 0, trace |-> <<>>]
Examine(st) == [st EXCEPT !.trace = Append(@, Event("examine", NoError))]

\* throwValidateError(...) caught by the frame's own handler
Catch(st, e) ==
    [ok |-> FALSE,
     st |-> [m_error |-> e, writes |-> st.writes + 1,
             trace |-> Append(st.trace, Event("throw", e))]]

Min(S) == CHOOSE m \in S : \A o \in S : m <= o

IsDeclVariableOnly(node) == node.kind = "VariableDecl"
IsDeclAnyVariable(node) ==
    node.kind \in {"VariableDecl", "TypeDecl", "PointerVariableDecl", "ArrayVariableDecl"}
IsDecl(node) == node.kind \in {"VariableDecl", "TypeDecl"}

IsAggregate(node) == node.kind \in {"Struct", "Union"}

\* Index of the entry the enum loop throws at (0: it runs to the end).
Repeats(entries) ==
    {k \in 1..Len(entries) : \E h \in 1..(k - 1) : entries[h].name = entries[k].name}
EnumCollisionFirst(entries) ==
    IF Repeats(entries) = {} THEN 0
    ELSE LET k == Min(Repeats(entries))
         IN  Min({h \in 1..(k - 1) : entries[h].name = entries[k].name})
EnumCollision(entries) ==
    IF Repeats(entries) = {} THEN 0 ELSE Min(Repeats(entries))

\* What the name set of a frame holds after a node was handled.
InsertedShared(identifiers, node) ==
    IF IsDecl(node) THEN identifiers \cup {node.name}
    ELSE IF node.kind = "Enum"
         THEN identifiers \cup {node.entries[k].name : k \in 1..Len(node.entries)}
         ELSE identifiers
Inserted(identifiers, node) ==
    IF IsDecl(node) THEN identifiers \cup {node.name} ELSE identifiers

\* The value of a nested this->validate(...) is discarded: the loop goes on.
LoopContinuesPropagating(r) == r.ok
LoopContinuesAfter(r) == TRUE

RECURSIVE validate(_, _)
RECURSIVE ValidateLoop(_, _, _, _)

\* A validate that gives up at once while a diagnostic is still stored.
validateSticky(ast, st) ==
    IF st.m_error # NoError THEN [ok |-> FALSE, st |-> st]
    ELSE ValidateLoop(ast, 1, {}, st)

\* bool Validator::validate(const std::vector<ASTNode*>& ast)
validate(ast, st) == ValidateLoop(ast, 1, {}, st)

\* The for loop of validate from element i on, identifiers being the frame's
\* name set.
ValidateLoop(ast, i, identifiers, st) ==
    IF i > Len(ast) THEN [ok |-> TRUE, st |-> st]
    ELSE
      LET node == ast[i]
          st1 == Examine(st)
      IN
        IF node.kind = "Null" THEN Catch(st1, NullError)
        ELSE IF IsDecl(node) THEN
          IF node.name \in identifiers THEN Catch(st1, RedefinitionError(node))
          ELSE
            LET r == validate(<<node.kids[1]>>, st1)
            IN  IF LoopContinuesAfter(r)
                THEN ValidateLoop(ast, i + 1, Inserted(identifiers, node), r.st)
                ELSE [ok |-> FALSE, st |-> r.st]
        ELSE IF IsAggregate(node) THEN
          LET r == validate(node.kids, st1)
          IN  IF LoopContinuesAfter(r)
              THEN ValidateLoop(ast, i + 1, Inserted(identifiers, node), r.st)
              ELSE [ok |-> FALSE, st |-> r.st]
        ELSE IF node.kind = "Enum" THEN
          LET c == EnumCollision(node.entries)
          IN  IF c # 0 THEN Catch(st1, EnumRedefinitionError(node.entries[c]))
              ELSE ValidateLoop(ast, i + 1, Inserted(identifiers, node), st1)
        ELSE ValidateLoop(ast, i + 1, Inserted(identifiers, node), st1)

\* ------------------------------------------------------- bounded inputs
\* list is a list over S of length at most n.
IsList(list, S, n) == \E k \in 0..n : list \in [1..k -> S]
\* list is a list over Pad of length 1..n but for one position, which holds a
\* node of Special.
IsListWithOne(list, Pad, Special, n) ==
    \E len \in 1..n : \E p \in 1..len : \E s \in Special : \E f \in [1..len -> Pad] :
        list = [k \in 1..len |-> IF k = p THEN s ELSE f[k]]

Entries == {Entry(n, l) : n \in Names, l \in Lines}
EntryLists == UNION {[1..k -> Entries] : k \in 1..MaxEntries}
Enums == {Enum(e) : e \in EntryLists}
DupEnum == Enum(<<Entry("x", 1), Entry("x", MaxLine)>>)
DupStruct ==
    Struct(<<VariableDecl("x", 1, BuiltinType), VariableDecl("x", MaxLine, BuiltinType)>>)

\* Sibling declarations of both kinds, and the three ways an element fails.
Decls(names, lines, types) ==
    {Node(k, n, l, <<t>>, <<>>) :
        k \in {"VariableDecl", "TypeDecl"}, n \in names, l \in lines, t \in types}
SiblingNodes ==
    Decls({"x"}, Lines, {BuiltinType}) \cup Decls({"y"}, {1}, {BuiltinType})
    \cup {TypeDecl("", 1, BuiltinType), Null, DupStruct, DupEnum}
SiblingInput(list) == IsList(list, SiblingNodes, MaxLen)

\* One nested node (aggregate or declaration with an inline type) among
\* plain siblings that use the same name.
Members ==
    {Null, VariableDecl("x", 1, Null)} \cup {VariableDecl("x", l, BuiltinType) : l \in Lines}
MemberLists == UNION {[1..k -> Members] : k \in 0..MaxMembers}
Aggregates == {Struct(m) : m \in MemberLists} \cup {Union(m) : m \in MemberLists}
NestedNodes ==
    Aggregates \cup Decls({"y"}, {1}, {Null, DupEnum} \cup {Struct(m) : m \in MemberLists})
NestedPad == {TypeDecl("x", 1, BuiltinType), VariableDecl("x", MaxLine, BuiltinType)}
NestedInput(list) == IsListWithOne(list, NestedPad, NestedNodes, MaxLen)

\* Enums beside a declaration, and pairs of enums.
EnumInput(list) ==
    \/ IsListWithOne(list, {VariableDecl("x", 1, BuiltinType)}, Enums, MaxLen)
    \/ \E a \in Enums : \E n \in Names : \E b \in {Enum(<<Entry(n, 1)>>)} :
          list = <<a, b>> \/ list = <<b, a>>

\* The variants validate has no branch for.
UncheckedNodes ==
    {PointerVariableDecl("x", 1, t, BuiltinType) : t \in {BuiltinType, DupStruct, Null}}
    \cup {ArrayVariableDecl("x", 1, t, IntegerLiteral) : t \in {BuiltinType, DupEnum}}
    \cup {Bitfield(<<Entry("x", 1), Entry("x", MaxLine)>>), Bitfield(<<Entry("x", 1)>>)}
    \cup {BuiltinType, IntegerLiteral, RValue, NumericExpression(IntegerLiteral, RValue)}
UncheckedInput(list) ==
    IsList(list,
           UncheckedNodes
           \cup {VariableDecl("x", 1, BuiltinType), VariableDecl("x", MaxLine, BuiltinType)},
           MaxLen)

\* An AST validated earlier on the same instance, leaving its diagnostic.
PriorAst == <<VariableDecl("prior", 1, BuiltinType), TypeDecl("prior", MaxLine, BuiltinType)>>

Swap(list, i, j) ==
    [k \in 1..Len(list) |-> IF k = i THEN list[j] ELSE IF k = j THEN list[i] ELSE list[k]]

\* ---------------------------------------------------------------- state
VARIABLES ast,      \* the AST under validation
          m_error,  \* Validator::m_error
          calls     \* the calls made so far on ast and their outcomes
vars == <<ast, m_error, calls>>

\* One call of validate(arg) on the instance, logged.
Call(arg, swap) ==
    LET r == validate(arg, Enter(m_error))
    IN  /\ m_error' = r.st.m_error
        /\ calls' = Append(calls,
                [arg |-> arg, swap |-> swap, before |-> m_error, ok |-> r.ok,
                 error |-> r.st.m_error, writes |-> r.st.writes, trace |-> r.st.trace])
        /\ UNCHANGED ast

Init == /\ \/ SiblingInput(ast)
           \/ NestedInput(ast)
           \/ EnumInput(ast)
           \/ UncheckedInput(ast)
        /\ m_error = NoError
        /\ calls = <<>>

InitSwap == /\ SiblingInput(ast)
            /\ m_error = NoError
            /\ calls = <<>>

\* validate on another AST before the one under test
ValidatePrior ==
    /\ calls = <<>>
    /\ m_error = NoError
    /\ m_error' = validate(PriorAst, Enter(m_error)).st.m_error
    /\ UNCHANGED <<ast, calls>>

Validate ==
    /\ Len(calls) < MaxCalls
    /\ Call(ast, <<>>)

ValidateFirst ==
    /\ calls = <<>>
    /\ Call(ast, <<>>)

ValidateSwapped ==
    /\ Len(calls) = 1
    /\ \E i \in 1..Len(ast) : \E j \in (i + 1)..Len(ast) : Call(Swap(ast, i, j), <<i, j>>)

Next == ValidatePrior \/ Validate
NextSwap == ValidateFirst \/ ValidateSwapped

Spec == Init /\ [][Next]_vars
SpecSwap == InitSwap /\ [][NextSwap]_vars

\* ------------------------------------------------- reading the call log
DeclKinds == {"VariableDecl", "TypeDecl"}
UncheckedKinds ==
    {"PointerVariableDecl", "ArrayVariableDecl", "Bitfield", "BuiltinType",
     "IntegerLiteral", "NumericExpression", "RValue"}
Declares(n) == n.kind \in DeclKinds
SameName(p, q) == Declares(p) /\ Declares(q) /\ p.name = q.name
\* Entries that are the second one bearing their name.
SecondOccurrences(entries) ==
    {k \in 1..Len(entries) :
        Cardinality({h \in 1..(k - 1) : entries[h].name = entries[k].name}) = 1}
HasRepeat(n) == n.kind = "Enum" /\ SecondOccurrences(n.entries) # {}
\* Element j of list is a violation among the list's own elements.
FailsInFrame(list, j) ==
    \/ list[j] = Null
    \/ \E i \in 1..(j - 1) : SameName(list[i], list[j])
    \/ HasRepeat(list[j])
CleanBefore(list, j) == \A k \in 1..(j - 1) : ~FailsInFrame(list, k)
DirectViolation(list) == \E j \in 1..Len(list) : FailsInFrame(list, j)

Throws(trace) == {k \in 1..Len(trace) : trace[k].ev = "throw"}
Examined(trace) == Cardinality({k \in 1..Len(trace) : trace[k].ev = "examine"})
Max(S) == CHOOSE m \in S : \A o \in S : m >= o

\* The first violation of a list in left-to-right, depth-first order (a
\* declaration's name, then its type, then the next sibling); NoError if none.
RECURSIVE FirstViolation(_, _, _)
FirstViolation(list, i, seen) ==
    IF i > Len(list) THEN NoError
    ELSE
      LET n == list[i]
      IN  IF n = Null THEN NullError
          ELSE IF Declares(n) THEN
            IF n.name \in seen
            THEN ValidatorError("redefinition of identifier", n.name, n.line)
            ELSE LET e == FirstViolation(<<n.kids[1]>>, 1, {})
                 IN  IF e # NoError THEN e
                     ELSE FirstViolation(list, i + 1, seen \cup {n.name})
          ELSE IF n.kind \in {"Struct", "Union"} THEN
            LET e == FirstViolation(n.kids, 1, {})
            IN  IF e # NoError THEN e ELSE FirstViolation(list, i + 1, seen)
          ELSE IF HasRepeat(n) THEN
            LET k == Min(SecondOccurrences(n.entries))
            IN  ValidatorError("redefinition of enum constant",
                               n.entries[k].name, n.entries[k].line)
          ELSE FirstViolation(list, i + 1, seen)

\* No list of the tree has a null element, two declarations of one name or
\* an enum with a repeated entry name.
RECURSIVE WellScoped(_)
WellScoped(list) ==
    /\ ~DirectViolation(list)
    /\ \A k \in 1..Len(list) :
          /\ Declares(list[k]) => WellScoped(<<list[k].kids[1]>>)
          /\ list[k].kind \in {"Struct", "Union"} => WellScoped(list[k].kids)

\* Every enum node of the tree the walk can come to.
RECURSIVE EnumsIn(_)
EnumsIn(list) ==
    UNION {IF list[k] = Null THEN {}
           ELSE IF list[k].kind = "Enum" THEN {list[k]}
           ELSE IF Declares(list[k]) THEN EnumsIn(<<list[k].kids[1]>>)
           ELSE IF list[k].kind \in {"Struct", "Union"} THEN EnumsIn(list[k].kids)
           ELSE {} : k \in 1..Len(list)}

IsChecked(n) == n.kind \notin UncheckedKinds
Checked(list) == SelectSeq(list, IsChecked)
UncheckedCount(list) == Len(list) - Len(Checked(list))

\* ---------------------------------------------------------------- claims

\* C1: if any frame of a call detects a failure, the top-level call returns
\* failure and nothing is examined after the point of detection.
C1_FailurePropagation ==
    \A c \in 1..Len(calls) :
        calls[c].writes > 0 =>
            /\ ~calls[c].ok
            /\ Min(Throws(calls[c].trace)) = Len(calls[c].trace)

\* C2: an AST whose walk comes to a null node reference, at any depth, fails
\* with the internal-bug diagnostic at line 1.
C2_AbsentNodeAnyDepth ==
    \A c \in 1..Len(calls) :
        FirstViolation(calls[c].arg, 1, {}) = NullError =>
            ~calls[c].ok /\ calls[c].error = NullError

\* C3: the diagnostic after a call on an AST with a violation is the one of
\* the first violation in depth-first order, and the only one recorded.
C3_FirstErrorDiagnostic ==
    \A c \in 1..Len(calls) :
        FirstViolation(calls[c].arg, 1, {}) # NoError =>
            /\ calls[c].error = FirstViolation(calls[c].arg, 1, {})
            /\ calls[c].writes = 1

\* C4: two VariableDecl/TypeDecl elements of one list with the same name, no
\* element before the second failing in the frame: the call fails with the
\* redefinition diagnostic at the second one's line.
C4_SiblingRedefinition ==
    \A c \in 1..Len(calls) :
        LET L == calls[c].arg
        IN  \A j \in 1..Len(L) : \A i \in 1..(j - 1) :
                (SameName(L[i], L[j]) /\ CleanBefore(L, j)) =>
                    /\ ~calls[c].ok
                    /\ calls[c].error =
                         ValidatorError("redefinition of identifier", L[j].name, L[j].line)

C4_Witness ==
    \E c \in 1..Len(calls) :
        LET L == calls[c].arg
        IN  /\ Len(L) = 3
            /\ L[1] = DupStruct
            /\ L[2].kind = "TypeDecl" /\ L[3].kind = "VariableDecl"
            /\ L[2].name = L[3].name
            /\ L[3].line = MaxLine
            /\ ~calls[c].ok

\* C5: an Enum element with a repeated entry name that the frame comes to
\* fails the call with the enum-constant diagnostic at the line of the value
\* node of the second entry of that name; an enum-constant diagnostic is
\* thrown only for an Enum with a repeated entry name.
C5_EnumConstantUniqueness ==
    \A c \in 1..Len(calls) :
        LET L == calls[c].arg
            T == calls[c].trace
        IN  /\ \A j \in 1..Len(L) :
                  (L[j] # Null /\ HasRepeat(L[j]) /\ CleanBefore(L, j)) =>
                      LET k == Min(SecondOccurrences(L[j].entries))
                      IN  /\ ~calls[c].ok
                          /\ calls[c].error =
                               ValidatorError("redefinition of enum constant",
                                              L[j].entries[k].name, L[j].entries[k].line)
            /\ \A t \in Throws(T) :
                  T[t].err.msg = "redefinition of enum constant" =>
                      \E e \in EnumsIn(L) :
                          \E k \in SecondOccurrences(e.entries) :
                              e.entries[k].name = T[t].err.name

C5_Witness ==
    \E c \in 1..Len(calls) :
        LET L == calls[c].arg
        IN  /\ Len(L) = 2
            /\ L[1] = VariableDecl("x", 1, BuiltinType)
            /\ L[2] = Enum(<<Entry("y", 1), Entry("y", MaxLine)>>)
            /\ calls[c].error = ValidatorError("redefinition of enum constant", "y", MaxLine)

\* C6: a tree in which no single list repeats a name (and no enum repeats an
\* entry name) validates successfully without a diagnostic being written,
\* whatever names its different lists and enums share.
C6_ScopeIndependence ==
    \A c \in 1..Len(calls) :
        WellScoped(calls[c].arg) => calls[c].ok /\ calls[c].writes = 0

C6_Witness ==
    \E c \in 1..Len(calls) :
        /\ calls[c].arg = <<TypeDecl("x", 1, BuiltinType),
                            Struct(<<VariableDecl("x", 1, BuiltinType)>>)>>
        /\ calls[c].ok

\* C7: two calls in a row on the same AST give the same verdict and, on
\* failure, leave the same diagnostic, whatever was stored before.
C7_Idempotence ==
    \A c \in 1..(Len(calls) - 1) :
        calls[c].arg = calls[c + 1].arg =>
            /\ calls[c].ok = calls[c + 1].ok
            /\ ~calls[c].ok => calls[c].error = calls[c + 1].error

C7_Witness ==
    /\ Len(calls) = 2
    /\ calls[1].arg = calls[2].arg
    /\ calls[1].before # NoError
    /\ ~calls[2].ok
    /\ calls[2].error # calls[1].before

\* C8 as stated: swapping two declarations of different names keeps the
\* verdict; swapping two of one name and different lines keeps it a failure
\* and reports the line of the one that is now second.
C8_Reordering_AsStated ==
    Len(calls) = 2 =>
        LET a == calls[1]
            b == calls[2]
            p == ast[b.swap[1]]
            q == ast[b.swap[2]]
        IN  (Declares(p) /\ Declares(q)) =>
                /\ p.name # q.name => a.ok = b.ok
                /\ (p.name = q.name /\ p.line # q.line) =>
                      ~a.ok /\ ~b.ok /\ b.error.line = p.line

\* C8 amended: as above, the reported line being that of the one now second
\* when no element before it fails in the frame.
C8_Reordering ==
    Len(calls) = 2 =>
        LET a == calls[1]
            b == calls[2]
            j == b.swap[2]
            p == ast[b.swap[1]]
            q == ast[j]
        IN  (Declares(p) /\ Declares(q)) =>
                /\ p.name # q.name => a.ok = b.ok
                /\ (p.name = q.name /\ p.line # q.line) =>
                      /\ ~a.ok /\ ~b.ok
                      /\ CleanBefore(a.arg, j) =>
                            a.error = ValidatorError("redefinition of identifier", q.name, q.line)
                      /\ CleanBefore(b.arg, j) =>
                            b.error = ValidatorError("redefinition of identifier", p.name, p.line)

C8_Witness ==
    /\ Len(calls) = 2
    /\ Len(ast) = 3
    /\ LET p == ast[calls[2].swap[1]]
           q == ast[calls[2].swap[2]]
       IN  /\ SameName(p, q) /\ p.line # q.line
           /\ CleanBefore(calls[2].arg, calls[2].swap[2])
           /\ calls[1].error.line = q.line
           /\ calls[2].error.line = p.line

\* C9: elements of the variants validate has no branch for change nothing:
\* the call ends as the call on the list without them does, and each of them
\* is examined once, its children never.
C9_UncheckedVariants ==
    \A c \in 1..Len(calls) :
        LET L == calls[c].arg
            r == validate(Checked(L), Enter(calls[c].before))
        IN  /\ calls[c].ok = r.ok
            /\ calls[c].error = r.st.m_error
            /\ calls[c].writes = r.st.writes
            /\ calls[c].ok =>
                  Examined(calls[c].trace) = Examined(r.st.trace) + UncheckedCount(L)

C9_Witness ==
    \E c \in 1..Len(calls) :
        LET L == calls[c].arg
        IN  /\ Len(L) = 3
            /\ L[1] = VariableDecl("x", 1, BuiltinType)
            /\ L[2] = PointerVariableDecl("x", 1, DupStruct, BuiltinType)
            /\ L[3] = Bitfield(<<Entry("x", 1), Entry("x", MaxLine)>>)
            /\ calls[c].ok
            /\ calls[c].writes = 0

\* C10: a call returns false exactly when the list's own elements hold a
\* violation; the stored diagnostic afterwards is the last one thrown in any
\* frame of the call, and the one stored before if none was thrown.
C10_VerdictLocality ==
    \A c \in 1..Len(calls) :
        LET T == calls[c].trace
        IN  /\ calls[c].ok = ~DirectViolation(calls[c].arg)
            /\ calls[c].error =
                 IF Throws(T) = {} THEN calls[c].before ELSE T[Max(Throws(T))].err

C10_Witness ==
    \E c \in 1..Len(calls) :
        /\ calls[c].ok
        /\ calls[c].writes > 0
        /\ calls[c].before # NoError
        /\ calls[c].error = NullError
====
